---- MODULE Spec2Model ----
(***************************************************************************)
(* Minimum delivery cost service (mp-code123/min-delivery-cost).           *)
(*                                                                         *)
(* The repository holds two entry points with the same structure and      *)
(* different static configuration: src/index.js and src/unnamed/part_000.  *)
(* The variable `file` says which of the two programs is running.          *)
(*                                                                         *)
(* Numbers.  part_000 has the distance 2.5, so every distance and every    *)
(* cost of the model is a fixed-point integer counted in HALF units: the   *)
(* JavaScript number x is the integer 2x (Fixed(x)).  All sums and         *)
(* products of the code stay exact multiples of 0.5 in IEEE doubles, so    *)
(* the representation is exact.  Quantities of an order are plain          *)
(* integers.  The JavaScript value Infinity is the definition Infinity,    *)
(* with the arithmetic of the code (Plus, Times) saturating on it.         *)
(***************************************************************************)
EXTENDS Integers, Sequences, FiniteSets, TLC

VARIABLES
    file,             \* the entry point that is running
    DISTANCES,        \* the module-level object DISTANCES
    CENTER_PRODUCTS,  \* the module-level object CENTER_PRODUCTS
    \* ---- the HTTP server ----
    pc,               \* "start", "idle", "received", "responded"
    bodyKind,         \* "none", "object" or "undefined": what req.body is
    body,             \* req.body when it is an object: its entries in key order
    status,           \* HTTP status of the response (0: none yet)
    response,         \* minimum_delivery_cost of the response
    optCalls,         \* starts for which the request called findOptimalRoute
    testOutput,       \* lines runTests has logged: [result, expected, pass]
    \* ---- direct calls of the pure functions ----
    hpc,              \* "idle", "called", "returned"
    hfn,              \* the function that is applied
    argStart,         \* startCenter
    argNeeded,        \* centersNeeded, a Set: its members in insertion order
    argRoute,         \* route
    result,           \* [route, cost] returned by findOptimalRoute
    evaluated,        \* the routes findOptimalRoute handed to calculateRouteCost
    startCosts,       \* cost per start of the loop over the three centers
    scalar,           \* number returned by calculateRouteCost / the loop
    prevStart,        \* the previous findOptimalRoute call: its start,
    prevNeeded,       \*   its centersNeeded
    prevCost          \*   and the cost it returned

serverVars == <<pc, bodyKind, body, status, response, optCalls, testOutput>>
callVars == <<hpc, hfn, argStart, argNeeded, argRoute, result, evaluated,
              startCosts, scalar, prevStart, prevNeeded, prevCost>>
configVars == <<file, DISTANCES, CENTER_PRODUCTS>>
vars == <<file, DISTANCES, CENTER_PRODUCTS, pc, bodyKind, body, status,
          response, optCalls, testOutput, hpc, hfn, argStart, argNeeded,
          argRoute, result, evaluated, startCosts, scalar, prevStart,
          prevNeeded, prevCost>>

-----------------------------------------------------------------------------
(* Bounds of the inputs *)

MaxQty == 2        \* quantities of the well-formed orders are 1..MaxQty
MaxDirtyLen == 2   \* entries of an order with arbitrary JSON values
MaxNeeded == 3     \* members of a centersNeeded set passed directly
MaxRouteLen == 3   \* locations of a route passed to calculateRouteCost
MaxWalkLen == 4    \* locations of the Routes the optimum is compared with

-----------------------------------------------------------------------------
(* Numbers *)

Fixed(n) == n + n

Infinity == 1000000

NaN == [nan |-> TRUE, n |-> 0]

Num(n) == [nan |-> FALSE, n |-> n]

Plus(a, b) == IF a = Infinity \/ b = Infinity THEN Infinity ELSE a + b

Times(a, k) == IF a = Infinity THEN Infinity ELSE a * k

\* Math.round of a fixed-point number, as a fixed-point number:
\* floor(x + 0.5), ties towards +Infinity.
MathRound(a) == IF a = Infinity THEN Infinity ELSE Fixed((a + 1) \div 2)

MathMin(a, b) == IF a < b THEN a ELSE b

-----------------------------------------------------------------------------
(* Static configuration *)

Files == {"index.js", "part_000"}

Centers == {"C1", "C2", "C3"}

Hub == "L1"

CenterProducts ==
    [C1 |-> <<"A", "B", "C">>, C2 |-> <<"D", "E", "F">>, C3 |-> <<"G", "H", "I">>]

DistanceTable(f) ==
    IF f = "index.js"
    THEN [C1_L1 |-> Fixed(13), C2_L1 |-> Fixed(39), C3_L1 |-> Fixed(18),
          L1_C1 |-> Fixed(13), L1_C2 |-> Fixed(39), L1_C3 |-> Fixed(18),
          C1_C2 |-> Fixed(30), C1_C3 |-> Fixed(40), C2_C1 |-> Fixed(30),
          C2_C3 |-> Fixed(20), C3_C1 |-> Fixed(40), C3_C2 |-> Fixed(20)]
    ELSE [C1_L1 |-> 6, C2_L1 |-> 5, C3_L1 |-> 4,
          L1_C1 |-> 6, L1_C2 |-> 5, L1_C3 |-> 4,
          C1_C2 |-> Fixed(4), C1_C3 |-> Fixed(3), C2_C1 |-> Fixed(4),
          C2_C3 |-> Fixed(3), C3_C1 |-> Fixed(3), C3_C2 |-> Fixed(3)]

COST_PER_KM == 3

scalingFactor == 13

\* The own properties every object literal inherits from Object.prototype:
\* obj[key] is a (truthy) function for these keys.
InheritedKeys == {"toString"}

\* What `${value}` makes of such a function when it is used as a location.
NativeFunctionText == "function toString() { [native code] }"

\* The function itself, when calculateMinDeliveryCost returns it.
NativeFunction == -1

-----------------------------------------------------------------------------
(* getDistance, calculateRouteCost *)

getDistance_zero(from, to) ==
    LET key == from \o "_" \o to
    IN  IF key \in DOMAIN DISTANCES THEN DISTANCES[key] ELSE 0

getDistance(from, to) ==
    LET key == from \o "_" \o to
    IN  IF key \in DOMAIN DISTANCES /\ DISTANCES[key] # 0
        THEN DISTANCES[key]
        ELSE Infinity

RECURSIVE routeCostFrom(_, _)
routeCostFrom(route, i) ==
    IF i > Len(route) - 1
    THEN 0
    ELSE Plus(Times(getDistance(route[i], route[i + 1]), COST_PER_KM),
              routeCostFrom(route, i + 1))

calculateRouteCost(route) == routeCostFrom(route, 1)

-----------------------------------------------------------------------------
(* getPermutations *)

RemoveAt(arr, i) == SubSeq(arr, 1, i - 1) \o SubSeq(arr, i + 1, Len(arr))

RECURSIVE getPermutations(_)
RECURSIVE permutationsFrom(_, _)
permutationsFrom(arr, i) ==
    IF i > Len(arr)
    THEN <<>>
    ELSE LET remainingPerms == getPermutations(RemoveAt(arr, i))
         IN  [j \in 1..Len(remainingPerms) |-> <<arr[i]>> \o remainingPerms[j]]
             \o permutationsFrom(arr, i + 1)

getPermutations_identity(arr) == <<arr>>

getPermutations(arr) ==
    IF Len(arr) <= 1 THEN <<arr>> ELSE permutationsFrom(arr, 1)

-----------------------------------------------------------------------------
(* findOptimalRoute *)

\* The value of bestRoute when no candidate replaced its initial null.
NullRoute == <<"null">>

\* 1 << n
Pow2(n) == 2 ^ n

\* (mask >> i) & 1, for the 0-based bit i
BitSet(mask, i) == (mask \div Pow2(i)) % 2 = 1

RECURSIVE insertFrom(_, _, _)
insertFrom(perm, mask, i) ==
    IF i > Len(perm)
    THEN <<>>
    ELSE (IF BitSet(mask, i - 1) THEN <<"L1">> ELSE <<>>)
         \o <<perm[i]>> \o insertFrom(perm, mask, i + 1)

buildRoute(startCenter, perm, mask) ==
    LET route == <<startCenter>> \o insertFrom(perm, mask, 1)
    IN  IF route[Len(route)] # "L1" THEN Append(route, "L1") ELSE route

maskCount_short(n) == Pow2(n) - 1

\* the number of masks the inner loop runs through: mask < (1 << n)
maskCount(n) == Pow2(n)

\* The routes the two nested loops build, in the order they build them.
candidateRoutes(startCenter, centersToVisit) ==
    LET permutations == getPermutations(centersToVisit)
        m == maskCount(Len(centersToVisit))
    IN  [k \in 1..(Len(permutations) * m) |->
            buildRoute(startCenter, permutations[((k - 1) \div m) + 1],
                       (k - 1) % m)]

RECURSIVE pickBest(_, _, _, _)
pickBest(routes, i, minCost, bestRoute) ==
    IF i > Len(routes)
    THEN [route |-> bestRoute, cost |-> minCost]
    ELSE LET cost == calculateRouteCost(routes[i])
         IN  IF cost < minCost
             THEN pickBest(routes, i + 1, cost, routes[i])
             ELSE pickBest(routes, i + 1, minCost, bestRoute)

Has(seq, x) == \E i \in 1..Len(seq) : seq[i] = x

centersToVisitOf_all(startCenter, centersNeeded) == centersNeeded

\* Array.from(centersNeeded).filter(center => center !== startCenter)
centersToVisitOf(startCenter, centersNeeded) ==
    SelectSeq(centersNeeded, LAMBDA center : center # startCenter)

\* The routes a call hands to calculateRouteCost, in order.
evaluatedRoutes(startCenter, centersNeeded) ==
    LET centersToVisit == centersToVisitOf(startCenter, centersNeeded)
    IN  IF Len(centersToVisit) = 0
        THEN IF Has(centersNeeded, startCenter)
             THEN << <<startCenter, "L1">> >>
             ELSE <<>>
        ELSE candidateRoutes(startCenter, centersToVisit)

findOptimalRoute(startCenter, centersNeeded) ==
    LET centersToVisit == centersToVisitOf(startCenter, centersNeeded)
    IN  IF Len(centersToVisit) = 0
        THEN IF Has(centersNeeded, startCenter)
             THEN [route |-> <<startCenter, "L1">>,
                   cost |-> calculateRouteCost(<<startCenter, "L1">>)]
             ELSE [route |-> <<>>, cost |-> Infinity]
        ELSE pickBest(candidateRoutes(startCenter, centersToVisit), 1,
                      Infinity, NullRoute)

\* const centers = ['C1', 'C2', 'C3']
centers == <<"C1", "C2", "C3">>

RECURSIVE minOver(_, _, _)
minOver(costs, i, minCost) ==
    IF i > Len(costs)
    THEN minCost
    ELSE minOver(costs, i + 1, MathMin(minCost, costs[i]))

\* The loop "Try starting from each center": the cost of every start and
\* the minimum the loop ends with.
tryEachStart(centersNeeded) ==
    LET costs == [i \in 1..Len(centers) |->
                     findOptimalRoute(centers[i], centersNeeded).cost]
    IN  [costs |-> costs, minCost |-> minOver(costs, 1, Infinity)]

-----------------------------------------------------------------------------
(* JSON values, the order normalizer *)

\* The JSON value of an entry of a request body is its JSON text: the numbers
\* 1, 2, 3, 4, 0, -1, the strings "2" and "abc", true and null.

\* typeof value
TypeOf(value) ==
    IF value \in {"1", "2", "3", "4", "0", "-1"} THEN "number"
    ELSE IF value \in {"\"2\"", "\"abc\""} THEN "string"
    ELSE IF value = "true" THEN "boolean"
    ELSE "object"

\* Number(value)
ToNumber(value) ==
    IF value = "1" THEN Num(1)
    ELSE IF value = "2" THEN Num(2)
    ELSE IF value = "3" THEN Num(3)
    ELSE IF value = "4" THEN Num(4)
    ELSE IF value = "0" THEN Num(0)
    ELSE IF value = "-1" THEN Num(-1)
    ELSE IF value = "\"2\"" THEN Num(2)
    ELSE IF value = "\"abc\"" THEN NaN
    ELSE IF value = "true" THEN Num(1)
    ELSE Num(0)

\* x > 0 for a JavaScript number x (false for NaN)
Positive(x) == ~x.nan /\ x.n > 0

keepsEntry_zero(entry) ==
    /\ (TypeOf(entry.value) = "number" \/ ~ToNumber(entry.value).nan)
    /\ ToNumber(entry.value).n >= 0

\* The condition under which the "Clean order input" loop keeps an entry
\* (typeof key === 'string' holds of every key of an object).
keepsEntry(entry) ==
    /\ (TypeOf(entry.value) = "number" \/ ~ToNumber(entry.value).nan)
    /\ Positive(ToNumber(entry.value))

\* filteredOrder: the kept entries, in the key order of the body, with
\* their values converted by Number().
filteredOrderOf(order) ==
    LET kept == SelectSeq(order, keepsEntry)
    IN  [i \in 1..Len(kept) |->
            [key |-> kept[i].key, value |-> ToNumber(kept[i].value).n]]

\* Object.keys(obj)
ObjectKeys(obj) == [i \in 1..Len(obj) |-> obj[i].key]

-----------------------------------------------------------------------------
(* Product catalog, center resolver *)

\* getProductCenterMap(): the own properties of productCenterMap
getProductCenterMap ==
    [product \in UNION {{CENTER_PRODUCTS[c][i] : i \in 1..Len(CENTER_PRODUCTS[c])} :
                           c \in DOMAIN CENTER_PRODUCTS} |->
        CHOOSE c \in DOMAIN CENTER_PRODUCTS :
            \E i \in 1..Len(CENTER_PRODUCTS[c]) : CENTER_PRODUCTS[c][i] = product]

\* productCenterMap[product] is truthy
mapsProduct(productCenterMap, product) ==
    product \in DOMAIN productCenterMap \/ product \in InheritedKeys

\* productCenterMap[product], as the location it stands for in a route
mappedCenter(productCenterMap, product) ==
    IF product \in DOMAIN productCenterMap
    THEN productCenterMap[product]
    ELSE NativeFunctionText

\* Set.prototype.add
SetAdd(set, x) == IF Has(set, x) THEN set ELSE Append(set, x)

RECURSIVE centersNeededFrom(_, _, _, _)
centersNeededFrom(order, productCenterMap, i, centersNeeded) ==
    IF i > Len(order)
    THEN centersNeeded
    ELSE centersNeededFrom(order, productCenterMap, i + 1,
            IF order[i].value > 0 /\ mapsProduct(productCenterMap, order[i].key)
            THEN SetAdd(centersNeeded, mappedCenter(productCenterMap, order[i].key))
            ELSE centersNeeded)

findCentersNeeded(order, productCenterMap) ==
    centersNeededFrom(order, productCenterMap, 1, <<>>)

-----------------------------------------------------------------------------
(* Array.prototype.sort, join, JSON.stringify *)

\* The keys of the model in the order of their UTF-16 code units.
KeyOrder == <<"A", "B", "C", "D", "E", "F", "G", "H", "I", "X", "toString">>

KeyRank(key) == CHOOSE r \in 1..Len(KeyOrder) : KeyOrder[r] = key

RECURSIVE insertSorted(_, _)
insertSorted(sorted, key) ==
    IF Len(sorted) = 0 THEN <<key>>
    ELSE IF KeyRank(key) < KeyRank(sorted[1]) THEN <<key>> \o sorted
    ELSE <<sorted[1]>> \o insertSorted(Tail(sorted), key)

RECURSIVE sortFrom(_, _, _)
sortFrom(keys, i, sorted) ==
    IF i > Len(keys) THEN sorted
    ELSE sortFrom(keys, i + 1, insertSorted(sorted, keys[i]))

\* keys.sort()
Sort(keys) == sortFrom(keys, 1, <<>>)

RECURSIVE Join(_, _)
Join(strings, separator) ==
    IF Len(strings) = 0 THEN ""
    ELSE IF Len(strings) = 1 THEN strings[1]
    ELSE strings[1] \o separator \o Join(Tail(strings), separator)

Digits == <<"0", "1", "2", "3", "4", "5", "6", "7", "8", "9">>

RECURSIVE NumberText(_)
NumberText(n) ==
    IF n < 0 THEN "-" \o NumberText(0 - n)
    ELSE IF n < 10 THEN Digits[n + 1]
    ELSE NumberText(n \div 10) \o Digits[(n % 10) + 1]

\* JSON.stringify of an object whose values are positive integers
Stringify(obj) ==
    "{" \o Join([i \in 1..Len(obj) |->
                    "\"" \o obj[i].key \o "\":" \o NumberText(obj[i].value)], ",")
        \o "}"

orderProductsOf_unsorted(filteredOrder) == Join(ObjectKeys(filteredOrder), ",")

\* Object.keys(filteredOrder).sort().join(',')
orderProductsOf(filteredOrder) == Join(Sort(ObjectKeys(filteredOrder)), ",")

\* sortedOrder of part_000: the entries of filteredOrder in sorted key order
sortedOrderOf(filteredOrder) ==
    LET keys == Sort(ObjectKeys(filteredOrder))
    IN  [i \in 1..Len(keys) |->
            [key |-> keys[i],
             value |-> (CHOOSE e \in {filteredOrder[j] : j \in 1..Len(filteredOrder)} :
                            e.key = keys[i]).value]]

-----------------------------------------------------------------------------
(* calculateMinDeliveryCost *)

\* obj[key] for an object literal whose own values are numbers: the own
\* value, an inherited function, or undefined (falsy, 0 here).
Lookup(obj, key) ==
    IF key \in DOMAIN obj THEN obj[key]
    ELSE IF key \in InheritedKeys THEN NativeFunction
    ELSE 0

Truthy(x) == x # 0

\* testCases of index.js, productBasedCases of part_000
productBasedCases ==
    ("A,G,H,I" :> Fixed(86)) @@ ("A,B,C,G,H,I" :> Fixed(118)) @@
    ("A,B,C" :> Fixed(78)) @@ ("A,B,C,D" :> Fixed(168))

\* testCases of part_000
testCases ==
    ("{\"A\":1,\"G\":1,\"H\":1,\"I\":3}" :> Fixed(86)) @@
    ("{\"A\":1,\"B\":1,\"C\":1,\"G\":1,\"H\":1,\"I\":1}" :> Fixed(118)) @@
    ("{\"A\":1,\"B\":1,\"C\":1}" :> Fixed(78)) @@
    ("{\"A\":1,\"B\":1,\"C\":1,\"D\":1}" :> Fixed(168))

Returns(value) == [value |-> value, optimizer |-> <<>>]

\* calculateMinDeliveryCost of src/index.js: the value it returns and the
\* starts it called findOptimalRoute for.
calculateMinDeliveryCost_index(order) ==
    LET filteredOrder == filteredOrderOf(order)
        productCenterMap == getProductCenterMap
        centersNeeded == findCentersNeeded(filteredOrder, productCenterMap)
        orderProducts == orderProductsOf(filteredOrder)
    IN  IF Len(filteredOrder) = 0 THEN Returns(0)
        ELSE IF Len(centersNeeded) = 0 THEN Returns(0)
        ELSE IF Truthy(Lookup(productBasedCases, orderProducts))
        THEN Returns(Lookup(productBasedCases, orderProducts))
        ELSE [value |-> tryEachStart(centersNeeded).minCost,
              optimizer |-> centers]

\* calculateMinDeliveryCost of src/unnamed/part_000
calculateMinDeliveryCost_part000(order) ==
    LET filteredOrder == filteredOrderOf(order)
        orderKey == Stringify(filteredOrder)
        sortedOrderKey == Stringify(sortedOrderOf(filteredOrder))
        orderProducts == orderProductsOf(filteredOrder)
        productCenterMap == getProductCenterMap
        centersNeeded == findCentersNeeded(filteredOrder, productCenterMap)
    IN  IF Len(filteredOrder) = 0 THEN Returns(0)
        ELSE IF Truthy(Lookup(testCases, orderKey))
        THEN Returns(Lookup(testCases, orderKey))
        ELSE IF Truthy(Lookup(testCases, sortedOrderKey))
        THEN Returns(Lookup(testCases, sortedOrderKey))
        ELSE IF Truthy(Lookup(productBasedCases, orderProducts))
        THEN Returns(Lookup(productBasedCases, orderProducts))
        ELSE IF Len(centersNeeded) = 0 THEN Returns(0)
        ELSE [value |-> MathRound(Times(tryEachStart(centersNeeded).minCost,
                                        scalingFactor)),
              optimizer |-> centers]

runCalculate(order) ==
    IF file = "index.js"
    THEN calculateMinDeliveryCost_index(order)
    ELSE calculateMinDeliveryCost_part000(order)

calculateMinDeliveryCost(order) == runCalculate(order).value

\* The four orders of runTests with their expected values.
runTestsCases ==
    << [order |-> << [key |-> "A", value |-> "1"], [key |-> "G", value |-> "1"],
                     [key |-> "H", value |-> "1"], [key |-> "I", value |-> "3"] >>,
        expected |-> Fixed(86)],
       [order |-> << [key |-> "A", value |-> "1"], [key |-> "B", value |-> "1"],
                     [key |-> "C", value |-> "1"], [key |-> "G", value |-> "1"],
                     [key |-> "H", value |-> "1"], [key |-> "I", value |-> "1"] >>,
        expected |-> Fixed(118)],
       [order |-> << [key |-> "A", value |-> "1"], [key |-> "B", value |-> "1"],
                     [key |-> "C", value |-> "1"] >>,
        expected |-> Fixed(78)],
       [order |-> << [key |-> "A", value |-> "1"], [key |-> "B", value |-> "1"],
                     [key |-> "C", value |-> "1"], [key |-> "D", value |-> "1"] >>,
        expected |-> Fixed(168)] >>

\* runTests(): one logged line per case
runTests ==
    [i \in 1..Len(runTestsCases) |->
        LET r == calculateMinDeliveryCost(runTestsCases[i].order)
        IN  [result |-> r, expected |-> runTestsCases[i].expected,
             pass |-> (r = runTestsCases[i].expected)]]

-----------------------------------------------------------------------------
(* Inputs *)

Range(seq) == {seq[i] : i \in 1..Len(seq)}

\* The sequences of n distinct members of S
Arrangements(S, n) ==
    {seq \in [1..n -> S] : \A i, j \in 1..n : i # j => seq[i] # seq[j]}

Products == {"A", "B", "C", "D", "E", "F", "G", "H", "I"}

\* "X" is a product no center stocks.
Keys == Products \cup {"X"}

Ascending(K) == SelectSeq(KeyOrder, LAMBDA key : key \in K)

Reverse(seq) == [i \in 1..Len(seq) |-> seq[Len(seq) + 1 - i]]

Quantities == 1..MaxQty

Entries(keys, qty) ==
    [i \in 1..Len(keys) |-> [key |-> keys[i], value |-> NumberText(qty[i])]]

Uniform(keys, q) == [i \in 1..Len(keys) |-> q]

\* Every set of keys, in ascending or descending key order, every entry
\* with the same quantity.
PlainOrders ==
    UNION {{Entries(Ascending(K), Uniform(Ascending(K), q)),
            Entries(Reverse(Ascending(K)), Uniform(Ascending(K), q))} :
                <<K, q>> \in (SUBSET Keys) \X Quantities}

DirtyKeys == {"A", "D", "X", "toString"}

DirtyValues == {"1", "0", "-1", "\"2\"", "\"abc\"", "true", "null"}

\* Short bodies with arbitrary JSON values and inherited property names.
DirtyOrders ==
    UNION {{[i \in 1..n |-> [key |-> keys[i], value |-> values[i]]] :
                <<keys, values>> \in Arrangements(DirtyKeys, n) \X [1..n -> DirtyValues]} :
           n \in 0..MaxDirtyLen}

ReferenceProducts ==
    {{"A", "G", "H", "I"}, {"A", "B", "C", "G", "H", "I"}, {"A", "B", "C"},
     {"A", "B", "C", "D"}}

\* The product sets of runTests: in every key order with one quantity, and
\* in ascending key order with every assignment of quantities.
ReferenceOrders ==
    UNION {{Entries(keys, Uniform(keys, q)) :
                <<keys, q>> \in Arrangements(R, Cardinality(R)) \X Quantities}
           \cup {Entries(Ascending(R), qty) :
                    qty \in [1..Cardinality(R) -> Quantities]} :
           R \in ReferenceProducts}

Orders == PlainOrders \cup DirtyOrders \cup ReferenceOrders

NeededMembers == Centers \cup {NativeFunctionText}

NeededInputs == UNION {Arrangements(NeededMembers, n) : n \in 0..MaxNeeded}

RouteMembers == Centers \cup {Hub, NativeFunctionText}

RouteInputs == UNION {[1..n -> RouteMembers] : n \in 0..MaxRouteLen}

-----------------------------------------------------------------------------
(* Initial state *)

NoResult == [route |-> <<>>, cost |-> 0]

Init ==
    /\ file \in Files
    /\ DISTANCES = DistanceTable(file)
    /\ CENTER_PRODUCTS = CenterProducts
    /\ pc = "start"
    /\ bodyKind = "none"
    /\ body = <<>>
    /\ status = 0
    /\ response = 0
    /\ optCalls = <<>>
    /\ testOutput = <<>>
    /\ hpc = "idle"
    /\ hfn = "none"
    /\ argStart = ""
    /\ argNeeded = <<>>
    /\ argRoute = <<>>
    /\ result = NoResult
    /\ evaluated = <<>>
    /\ startCosts = <<>>
    /\ scalar = 0
    /\ prevStart = ""
    /\ prevNeeded = <<>>
    /\ prevCost = 0

-----------------------------------------------------------------------------
(* The HTTP server *)

\* app.listen callback: part_000 runs runTests(), index.js has the call
\* commented out.
Listen ==
    /\ pc = "start"
    /\ pc' = "idle"
    /\ testOutput' = IF file = "part_000" THEN runTests ELSE <<>>
    /\ UNCHANGED <<bodyKind, body, status, response, optCalls>>
    /\ UNCHANGED <<configVars, callVars>>

\* express.json() hands the route a request whose body is the object order.
ReceiveOrder(order) ==
    /\ pc = "idle"
    /\ pc' = "received"
    /\ bodyKind' = "object"
    /\ body' = order
    /\ UNCHANGED <<status, response, optCalls, testOutput>>
    /\ UNCHANGED <<configVars, callVars>>

\* A request without a parsed JSON body: req.body is undefined.
ReceiveNoBody ==
    /\ pc = "idle"
    /\ pc' = "received"
    /\ bodyKind' = "undefined"
    /\ body' = <<>>
    /\ UNCHANGED <<status, response, optCalls, testOutput>>
    /\ UNCHANGED <<configVars, callVars>>

\* app.post('/calculate-delivery-cost'): Object.entries(undefined) throws
\* and the catch answers 400; otherwise the cost is sent with status 200.
HandleRequest ==
    /\ pc = "received"
    /\ pc' = "responded"
    /\ IF bodyKind = "undefined"
       THEN /\ status' = 400
            /\ response' = 0
            /\ optCalls' = <<>>
       ELSE /\ status' = 200
            /\ response' = runCalculate(body).value
            /\ optCalls' = runCalculate(body).optimizer
    /\ UNCHANGED <<bodyKind, body, testOutput>>
    /\ UNCHANGED <<configVars, callVars>>

\* The request-scoped values are discarded once the response is sent.
FinishRequest ==
    /\ pc = "responded"
    /\ pc' = "idle"
    /\ bodyKind' = "none"
    /\ body' = <<>>
    /\ status' = 0
    /\ response' = 0
    /\ optCalls' = <<>>
    /\ UNCHANGED testOutput
    /\ UNCHANGED <<configVars, callVars>>

Next ==
    \/ Listen
    \/ \E order \in Orders : ReceiveOrder(order)
    \/ ReceiveNoBody
    \/ HandleRequest
    \/ FinishRequest

Spec == Init /\ [][Next]_vars

-----------------------------------------------------------------------------
(* Direct calls of findOptimalRoute, calculateRouteCost and the loop over  *)
(* the starts                                                              *)

CallFindOptimalRoute(startCenter, centersNeeded) ==
    /\ hpc = "idle"
    /\ hpc' = "called"
    /\ hfn' = "findOptimalRoute"
    /\ argStart' = startCenter
    /\ argNeeded' = centersNeeded
    /\ UNCHANGED <<argRoute, result, evaluated, startCosts, scalar,
                   prevStart, prevNeeded, prevCost>>
    /\ UNCHANGED <<configVars, serverVars>>

ReturnFindOptimalRoute ==
    /\ hpc = "called"
    /\ hfn = "findOptimalRoute"
    /\ hpc' = "returned"
    /\ result' = findOptimalRoute(argStart, argNeeded)
    /\ evaluated' = evaluatedRoutes(argStart, argNeeded)
    /\ UNCHANGED <<hfn, argStart, argNeeded, argRoute, startCosts, scalar,
                   prevStart, prevNeeded, prevCost>>
    /\ UNCHANGED <<configVars, serverVars>>

CallCalculateRouteCost(route) ==
    /\ hpc = "idle"
    /\ hpc' = "called"
    /\ hfn' = "calculateRouteCost"
    /\ argRoute' = route
    /\ UNCHANGED <<argStart, argNeeded, result, evaluated, startCosts, scalar,
                   prevStart, prevNeeded, prevCost>>
    /\ UNCHANGED <<configVars, serverVars>>

ReturnCalculateRouteCost ==
    /\ hpc = "called"
    /\ hfn = "calculateRouteCost"
    /\ hpc' = "returned"
    /\ scalar' = calculateRouteCost(argRoute)
    /\ UNCHANGED <<hfn, argStart, argNeeded, argRoute, result, evaluated,
                   startCosts, prevStart, prevNeeded, prevCost>>
    /\ UNCHANGED <<configVars, serverVars>>

CallTryEachStart(centersNeeded) ==
    /\ hpc = "idle"
    /\ hpc' = "called"
    /\ hfn' = "tryEachStart"
    /\ argNeeded' = centersNeeded
    /\ UNCHANGED <<argStart, argRoute, result, evaluated, startCosts, scalar,
                   prevStart, prevNeeded, prevCost>>
    /\ UNCHANGED <<configVars, serverVars>>

ReturnTryEachStart ==
    /\ hpc = "called"
    /\ hfn = "tryEachStart"
    /\ hpc' = "returned"
    /\ startCosts' = tryEachStart(argNeeded).costs
    /\ scalar' = tryEachStart(argNeeded).minCost
    /\ UNCHANGED <<hfn, argStart, argNeeded, argRoute, result, evaluated,
                   prevStart, prevNeeded, prevCost>>
    /\ UNCHANGED <<configVars, serverVars>>

\* The locals of the call are gone once it has returned.
Discard ==
    /\ hpc = "returned"
    /\ hpc' = "idle"
    /\ hfn' = "none"
    /\ argStart' = ""
    /\ argNeeded' = <<>>
    /\ argRoute' = <<>>
    /\ result' = NoResult
    /\ evaluated' = <<>>
    /\ startCosts' = <<>>
    /\ scalar' = 0
    /\ UNCHANGED <<prevStart, prevNeeded, prevCost>>
    /\ UNCHANGED <<configVars, serverVars>>

NextOpt ==
    \/ \E s \in Centers, N \in NeededInputs : CallFindOptimalRoute(s, N)
    \/ ReturnFindOptimalRoute
    \/ \E route \in RouteInputs : CallCalculateRouteCost(route)
    \/ ReturnCalculateRouteCost
    \/ \E N \in NeededInputs : CallTryEachStart(N)
    \/ ReturnTryEachStart
    \/ Discard

SpecOpt == Init /\ [][NextOpt]_vars

-----------------------------------------------------------------------------
(* Sequences of findOptimalRoute calls: what a call returned is kept to be  *)
(* compared with the next call                                             *)

Remember ==
    /\ hpc = "returned"
    /\ hfn = "findOptimalRoute"
    /\ hpc' = "idle"
    /\ hfn' = "none"
    /\ argStart' = ""
    /\ argNeeded' = <<>>
    /\ result' = NoResult
    /\ evaluated' = <<>>
    /\ prevStart' = argStart
    /\ prevNeeded' = argNeeded
    /\ prevCost' = result.cost
    /\ UNCHANGED <<argRoute, startCosts, scalar>>
    /\ UNCHANGED <<configVars, serverVars>>

NextSeq ==
    \/ \E s \in Centers, N \in NeededInputs : CallFindOptimalRoute(s, N)
    \/ ReturnFindOptimalRoute
    \/ Remember

SpecSeq == Init /\ [][NextSeq]_vars

-----------------------------------------------------------------------------
(* Vocabulary of the properties, defined from the data model and not from  *)
(* the operators above                                                     *)

Locations == Centers \cup {Hub}

\* The center that stocks a product
StockedAt(product) ==
    CHOOSE c \in Centers : \E i \in 1..Len(CenterProducts[c]) : CenterProducts[c][i] = product

\* The products of a raw order with a numeric value greater than zero
ValidProducts(order) ==
    {order[i].key : i \in {j \in 1..Len(order) : Positive(ToNumber(order[j].value))}}

\* Centers Needed of a raw order
RequiredCenters(order) ==
    {StockedAt(p) : p \in ValidProducts(order) \cap Products}

BodyKeys == {body[i].key : i \in 1..Len(body)}

Answered == pc = "responded" /\ bodyKind = "object"

Returned(fn) == hpc = "returned" /\ hfn = fn

\* Some consecutive pair of the route has no entry in the distance table.
HasMissingPair(route) ==
    \E i \in 1..(Len(route) - 1) : (route[i] \o "_" \o route[i + 1]) \notin DOMAIN DISTANCES

\* Sum of the table distances of the consecutive pairs, times the unit cost
TableCost(route) ==
    LET leg(i) == DISTANCES[route[i] \o "_" \o route[i + 1]] * COST_PER_KM
        sum[i \in 0..(Len(route) - 1)] == IF i = 0 THEN 0 ELSE sum[i - 1] + leg(i)
    IN  sum[Len(route) - 1]

\* Routes of the data model, up to MaxWalkLen locations
Walks == UNION {[1..n -> Locations] : n \in 2..MaxWalkLen}

IsRouteFor(route, start, needed) ==
    /\ route[1] = start
    /\ route[Len(route)] = Hub
    /\ needed \subseteq Range(route)

CentersOnly(needed) == Range(needed) \subseteq Centers

RECURSIVE Factorial(_)
Factorial(n) == IF n <= 1 THEN 1 ELSE n * Factorial(n - 1)

-----------------------------------------------------------------------------
(* C1 *)

\* C1: findOptimalRoute(s, N) returns the lowest cost over ALL Routes of the
\* data model: no sequence of locations that starts at s, ends at the hub and
\* contains every center of N costs less than the returned cost.
C1_LowestOverAllRoutes ==
    (Returned("findOptimalRoute") /\ Len(argNeeded) >= 1 /\ CentersOnly(argNeeded))
        => \A w \in Walks :
              (IsRouteFor(w, argStart, Range(argNeeded)) /\ ~HasMissingPair(w))
                  => result.cost <= TableCost(w)

-----------------------------------------------------------------------------
(* C2 *)

\* C2: an order whose valid products all belong to one center c is answered
\* with distance(c, L1) x unit cost.
C2_SingleCenterDirectCost ==
    (Answered /\ ValidProducts(body) # {} /\ ValidProducts(body) \subseteq Products
        /\ Cardinality(RequiredCenters(body)) = 1)
        => \A c \in RequiredCenters(body) :
              response = DISTANCES[c \o "_" \o Hub] * COST_PER_KM

-----------------------------------------------------------------------------
(* C3 *)

\* C3: adding a catalog product of an already-required center, with a
\* positive quantity, does not change the computed cost.
C3_AddingProductKeepsCost ==
    Answered
        => \A p \in Products \ BodyKeys, q \in Quantities :
              StockedAt(p) \in RequiredCenters(body)
                  => calculateMinDeliveryCost(
                        Append(body, [key |-> p, value |-> NumberText(q)])) = response

-----------------------------------------------------------------------------
(* C4 *)

\* C4: an order without any entry whose value is numeric and greater than
\* zero is answered with 0, and findOptimalRoute is not called for it.
C4_NoValidEntryCostsZero ==
    (Answered /\ ValidProducts(body) = {})
        => (status = 200 /\ response = 0 /\ optCalls = <<>>)

C4_Witness ==
    /\ Answered
    /\ ValidProducts(body) = {}
    /\ BodyKeys \cap Products # {}
    /\ \E i \in 1..Len(body) : body[i].value \in {"\"abc\"", "null"}
    /\ response = 0

-----------------------------------------------------------------------------
(* C5 *)

\* C5: the answer to an order equals the answer to the same order without
\* its non-catalog products.
C5_UnknownProductsIgnored ==
    Answered
        => response = calculateMinDeliveryCost(
                          SelectSeq(body, LAMBDA e : e.key \in Products))

-----------------------------------------------------------------------------
(* C6 *)

ExpectedReference(R) ==
    IF R = {"A", "G", "H", "I"} THEN Fixed(86)
    ELSE IF R = {"A", "B", "C", "G", "H", "I"} THEN Fixed(118)
    ELSE IF R = {"A", "B", "C"} THEN Fixed(78)
    ELSE Fixed(168)

\* C6: an order made of exactly the products of a runTests case, in any key
\* order and with any positive quantities, is answered with the expected value
\* of that case, and every line runTests logs is a PASS.
C6_ReferenceOrders ==
    /\ (Answered /\ BodyKeys \in ReferenceProducts /\ ValidProducts(body) = BodyKeys)
           => response = ExpectedReference(BodyKeys)
    /\ \A i \in 1..Len(testOutput) :
           testOutput[i].pass /\ testOutput[i].result = testOutput[i].expected

C6_Witness ==
    /\ Answered
    /\ file = "part_000"
    /\ Len(testOutput) = 4
    /\ BodyKeys = {"A", "B", "C", "G", "H", "I"}
    /\ body[1].key = "I"
    /\ body[1].value = "2"
    /\ response = Fixed(118)

-----------------------------------------------------------------------------
(* C7 *)

\* The cost of a findOptimalRoute call equals the cost of the previous call
\* whenever both had the same start and the same members of centersNeeded.
SameSetSameCost ==
    (Returned("findOptimalRoute") /\ prevStart = argStart
        /\ Range(prevNeeded) = Range(argNeeded))
        => result.cost = prevCost

-----------------------------------------------------------------------------
(* C8 *)

\* C8: a route with a consecutive pair that is not in the distance table
\* costs Infinity; findOptimalRoute returns no such route with a finite cost,
\* and when some candidate has all its pairs in the table it returns a route
\* with all pairs in the table, at a cost not above that candidate's.
C8_UnreachableIsInfinite ==
    /\ (Returned("calculateRouteCost") /\ Len(argRoute) >= 2 /\ HasMissingPair(argRoute))
           => scalar = Infinity
    /\ Returned("findOptimalRoute")
           => /\ HasMissingPair(result.route) => result.cost = Infinity
              /\ \A i \in 1..Len(evaluated) :
                     /\ HasMissingPair(evaluated[i])
                            => calculateRouteCost(evaluated[i]) = Infinity
                     /\ ~HasMissingPair(evaluated[i])
                            => /\ result.cost <= TableCost(evaluated[i])
                               /\ result.route # NullRoute
                               /\ ~HasMissingPair(result.route)

C8_Witness ==
    /\ Returned("calculateRouteCost")
    /\ Len(argRoute) = 3
    /\ HasMissingPair(argRoute)
    /\ (argRoute[2] \o "_" \o argRoute[3]) \in DOMAIN DISTANCES
    /\ scalar = Infinity

-----------------------------------------------------------------------------
(* C9 *)

\* The candidate of a permutation and a set of gaps: the start, then for
\* every position the hub if the gap before it is chosen and the center of
\* that position, then the hub.
CandidateOf(start, perm, gaps) ==
    LET piece(i) == IF i \in gaps THEN <<Hub, perm[i]>> ELSE <<perm[i]>>
        upTo[i \in 0..Len(perm)] == IF i = 0 THEN <<start>> ELSE upTo[i - 1] \o piece(i)
    IN  Append(upTo[Len(perm)], Hub)

ToVisit == Range(argNeeded) \ {argStart}

ExpectedCandidates ==
    {CandidateOf(argStart, perm, gaps) :
        <<perm, gaps>> \in Arrangements(ToVisit, Cardinality(ToVisit))
                            \X SUBSET (1..Cardinality(ToVisit))}

Occurrences(route, x) == Cardinality({i \in 1..Len(route) : route[i] = x})

\* C9: with n >= 1 centers to visit, findOptimalRoute evaluates exactly the
\* n! x 2^n candidates of every permutation and every bitmask; each starts at
\* the start, ends at the hub, holds each center to visit once and never
\* repeats a location twice in a row; the returned cost is the minimum over
\* them and the returned route is one of them with that cost.
C9_ExactCandidates ==
    (Returned("findOptimalRoute") /\ CentersOnly(argNeeded) /\ ToVisit # {})
        => /\ Len(evaluated) = Factorial(Cardinality(ToVisit)) * (2 ^ Cardinality(ToVisit))
           /\ Range(evaluated) = ExpectedCandidates
           /\ Cardinality(Range(evaluated)) = Len(evaluated)
           /\ \A i \in 1..Len(evaluated) :
                 LET r == evaluated[i]
                 IN  /\ r[1] = argStart
                     /\ r[Len(r)] = Hub
                     /\ \A c \in ToVisit : Occurrences(r, c) = 1
                     /\ \A k \in 1..(Len(r) - 1) : r[k] # r[k + 1]
                     /\ result.cost <= TableCost(r)
           /\ \E i \in 1..Len(evaluated) :
                 evaluated[i] = result.route /\ TableCost(evaluated[i]) = result.cost

C9_Witness ==
    /\ Returned("findOptimalRoute")
    /\ CentersOnly(argNeeded)
    /\ Cardinality(ToVisit) = 2
    /\ Len(evaluated) = 8
    /\ Occurrences(result.route, Hub) = 2

-----------------------------------------------------------------------------
(* C10 *)

\* C10 as claimed: the minimum over the three starts is attained by a start
\* that is a member of Centers Needed; a start outside it costs Infinity when
\* one center is needed and otherwise at least as much as some start inside it.
C10_OutsideStartInfinite ==
    (Returned("tryEachStart") /\ Len(argNeeded) >= 1 /\ CentersOnly(argNeeded))
        => /\ \E i \in 1..Len(startCosts) :
                 centers[i] \in Range(argNeeded) /\ startCosts[i] = scalar
           /\ \A i \in 1..Len(startCosts) :
                 centers[i] \notin Range(argNeeded)
                     => IF Len(argNeeded) = 1
                        THEN startCosts[i] = Infinity
                        ELSE \E j \in 1..Len(startCosts) :
                                 /\ centers[j] \in Range(argNeeded)
                                 /\ startCosts[j] <= startCosts[i]

\* C10 (amended): the minimum over the three starts is attained by a start
\* that is a member of Centers Needed, and every start outside it costs at
\* least as much as some start inside it, whatever the number of centers
\* needed.
C10_MinimumAtRequiredStart ==
    (Returned("tryEachStart") /\ Len(argNeeded) >= 1 /\ CentersOnly(argNeeded))
        => /\ \A i \in 1..Len(startCosts) : scalar <= startCosts[i]
           /\ \E i \in 1..Len(startCosts) :
                 centers[i] \in Range(argNeeded) /\ startCosts[i] = scalar
           /\ \A i \in 1..Len(startCosts) :
                 centers[i] \notin Range(argNeeded)
                     => \E j \in 1..Len(startCosts) :
                            /\ centers[j] \in Range(argNeeded)
                            /\ startCosts[j] <= startCosts[i]

C10_Witness ==
    /\ Returned("tryEachStart")
    /\ CentersOnly(argNeeded)
    /\ Len(argNeeded) = 1
    /\ \A i \in 1..Len(startCosts) :
          centers[i] \notin Range(argNeeded)
              => (startCosts[i] # Infinity /\ startCosts[i] > scalar)

====
